---- MODULE Spec2Model ----
(***************************************************************************)
(* Model of the VGA text-mode console writer of src/vga.rs: the Writer     *)
(* (col, row, color, buffer) and its operations write_byte, write_str,     *)
(* clear_screen, set_cursor, set_color, new_line and scroll.               *)
(*                                                                         *)
(* An index outside chars[BUFFER_HEIGHT][BUFFER_WIDTH] is a Rust           *)
(* bounds-check panic: the operation stops where the index is evaluated,   *)
(* the assignments made before it stay, and the Writer is never used       *)
(* again (field panicked).                                                 *)
(***************************************************************************)
EXTENDS Integers, Sequences

\* ------------------------------------------------------------ constants
BUFFER_WIDTH == 80
BUFFER_HEIGHT == 25
TAB_WIDTH == 4

\* Byte values the match of write_byte names.
NL == 10
CR == 13
TAB == 9
BS == 8
SPACE == 32

RECURSIVE BitOr(_, _)
\* a | b on unsigned integers, bit by bit.
BitOr(a, b) ==
  IF a = 0 THEN b
  ELSE IF b = 0 THEN a
  ELSE (IF a % 2 = 1 \/ b % 2 = 1 THEN 1 ELSE 0) + 2 * BitOr(a \div 2, b \div 2)

\* x << 4 on a u8: the bits shifted out are dropped.
Shl4(x) == (x * 16) % 256

\* Color::new with the nibbles the other way round.
ColorNewSwapped(foreground, background) == BitOr(Shl4(foreground), background)

\* Color::new(foreground, background): (background as u8) << 4 | (foreground as u8).
ColorNew(foreground, background) == BitOr(Shl4(background), foreground)

\* HalfColor discriminants used by the static Console.
White == 15
Black == 0

\* ------------------------------------------------------------ bounds
\* Number of public operations applied to the Writer in one behaviour.
MaxOps == 3
\* Bytes that the print! invocations of one behaviour write in total.
MaxBytes == 4

\* Inputs the actions draw from.
ByteInputs == {BS, TAB, NL, CR, 65}
ColorInputs == {ColorNew(14, 1), ColorNew(0, 7)}
CursorInputs == {<<79, 1>>, <<0, 1>>, <<79, 24>>, <<81, 24>>, <<2, 26>>}
StrInputs == {<<65, 66, TAB, 67, NL>>}

\* The call sites that print through the global Console, and the byte strings
\* their print!/println! invocations format (println! ends its string with \n;
\* print!("") formats no byte).
Sites == {1, 2}
PrintInputs == {<<>>, <<65, 66>>, <<67, NL>>, <<65, BS>>}

\* Bytes and coordinates the properties quantify over.
PrintableSample == {0, SPACE, 65, 255}
CoordSample == {<<0, 0>>, <<79, 24>>, <<80, 25>>, <<81, 26>>, <<1000, 3>>, <<5, 1000>>}

\* ------------------------------------------------------------ data
Rows == 0 .. (BUFFER_HEIGHT - 1)
Cols == 0 .. (BUFFER_WIDTH - 1)

\* struct Character { char_code, color }
Character(char_code, c) == [char_code |-> char_code, color |-> c]

\* The memory at 0xB8000 is whatever the boot environment left there: either
\* a screen of blanks in the firmware's light-gray-on-black attribute, or
\* text (here a digit pattern that differs between neighbouring cells).
BootBuffers ==
  { [y \in Rows |-> [x \in Cols |-> Character(SPACE, ColorNew(7, 0))]],
    [y \in Rows |-> [x \in Cols |-> Character(48 + ((3 * y + x) % 10), ColorNew(7, 0))]] }

\* ------------------------------------------------------------ state
VARIABLES
  col,       \* Writer.col
  row,       \* Writer.row
  color,     \* Writer.color
  buffer,    \* Writer.buffer: the chars array of the Buffer it points to
  panicked,  \* an index was out of bounds: the kernel has panicked
  op,        \* the operation applied last, with its arguments
  prevop,    \* the operation applied before it
  nops,      \* number of operations applied
  lock,      \* Console's spin::Mutex flag: TRUE while a guard exists
  pc,        \* per call site: "idle", "spin" (inside Console.lock()), "hold"
  printing,  \* per call site: the bytes its current print! formats
  pending,   \* per call site: the bytes of them not yet written
  spun,      \* per call site: parity of its failed attempts to take the lock
  lastWriter,\* the call site that wrote the last byte (0: none yet)
  preempt    \* TRUE: site 2 is an interrupt handler on site 1's processor

writervars == <<col, row, color, buffer, panicked>>
lockvars == <<lock, pc, printing, pending, spun, lastWriter, preempt>>
vars == <<col, row, color, buffer, panicked, op, prevop, nops,
          lock, pc, printing, pending, spun, lastWriter, preempt>>

\* The Writer as a value, as the methods see it through &mut self.
Self == [col |-> col, row |-> row, color |-> color, chars |-> buffer, panicked |-> panicked]

\* ------------------------------------------------------------ methods
\* The index chars[r][c] is inside the array.
InBounds(r, c) == r < BUFFER_HEIGHT /\ c < BUFFER_WIDTH

RECURSIVE scroll_rows_descending(_, _)
\* scroll's copy loop run from the bottom up: a row is read after it has been
\* overwritten.
scroll_rows_descending(cs, y) ==
  IF y >= BUFFER_HEIGHT - 1 THEN cs
  ELSE LET below == scroll_rows_descending(cs, y + 1)
       IN [below EXCEPT ![y] = below[y + 1]]

RECURSIVE scroll_rows(_, _)
\* The copy loop of scroll: rows y .. BUFFER_HEIGHT-2, in ascending order;
\* the inner loop over x copies the current row y+1 into row y cell by cell,
\* which makes row y that row.
scroll_rows(cs, y) ==
  IF y >= BUFFER_HEIGHT - 1 THEN cs
  ELSE scroll_rows([cs EXCEPT ![y] = cs[y + 1]], y + 1)

\* Writer::scroll
scroll(w) ==
  LET blank == Character(SPACE, w.color)
      moved == scroll_rows(w.chars, 0)
  IN [w EXCEPT !.chars = [moved EXCEPT ![BUFFER_HEIGHT - 1] = [x \in Cols |-> blank]]]

\* new_line comparing the row with BUFFER_HEIGHT instead of BUFFER_HEIGHT - 1.
new_line_off_by_one(w) ==
  LET w1 == [w EXCEPT !.col = 0]
  IN IF w1.row < BUFFER_HEIGHT
       THEN [w1 EXCEPT !.row = w1.row + 1]
       ELSE scroll(w1)

\* new_line without `self.col = 0`.
new_line_keeps_col(w) ==
  IF w.row < BUFFER_HEIGHT - 1
    THEN [w EXCEPT !.row = w.row + 1]
    ELSE scroll(w)

\* Writer::new_line
new_line(w) ==
  LET w1 == [w EXCEPT !.col = 0]
  IN IF w1.row < BUFFER_HEIGHT - 1
       THEN [w1 EXCEPT !.row = w1.row + 1]
       ELSE scroll(w1)

\* The `_` arm without `self.col += 1`.
write_other_no_advance(w, byte) ==
  LET w1 == IF w.col >= BUFFER_WIDTH THEN new_line(w) ELSE w
  IN IF InBounds(w1.row, w1.col)
       THEN [w1 EXCEPT !.chars[w1.row][w1.col] = Character(byte, w1.color)]
       ELSE [w1 EXCEPT !.panicked = TRUE]

\* The `_` arm of write_byte: any byte that is not \n, \r, \t or 0x08.
write_other(w, byte) ==
  LET w1 == IF w.col >= BUFFER_WIDTH THEN new_line(w) ELSE w
  IN IF InBounds(w1.row, w1.col)
       THEN [w1 EXCEPT !.chars[w1.row][w1.col] = Character(byte, w1.color),
                       !.col = w1.col + 1]
       ELSE [w1 EXCEPT !.panicked = TRUE]

\* The 0x08 arm with the blank in the Console's initial color instead of
\* self.color.
backspace_default_color(w) ==
  LET blank == Character(SPACE, ColorNew(White, Black))
  IN IF w.col = 0 /\ w.row = 0 THEN w
     ELSE IF w.col = 0
       THEN IF InBounds(w.row, w.col)
              THEN [w EXCEPT !.chars[w.row][w.col] = blank,
                             !.row = w.row - 1,
                             !.col = BUFFER_WIDTH - 1]
              ELSE [w EXCEPT !.panicked = TRUE]
       ELSE IF InBounds(w.row, w.col)
              THEN [w EXCEPT !.chars[w.row][w.col] = blank,
                             !.col = w.col - 1]
              ELSE [w EXCEPT !.panicked = TRUE]

\* The 0x08 arm of write_byte.
backspace(w) ==
  LET blank == Character(SPACE, w.color)
  IN IF w.col = 0 /\ w.row = 0 THEN w
     ELSE IF w.col = 0
       THEN IF InBounds(w.row, w.col)
              THEN [w EXCEPT !.chars[w.row][w.col] = blank,
                             !.row = w.row - 1,
                             !.col = BUFFER_WIDTH - 1]
              ELSE [w EXCEPT !.panicked = TRUE]
       ELSE IF InBounds(w.row, w.col)
              THEN [w EXCEPT !.chars[w.row][w.col] = blank,
                             !.col = w.col - 1]
              ELSE [w EXCEPT !.panicked = TRUE]

RECURSIVE write_byte(_, _)
RECURSIVE tab_loop(_, _)
\* The \t arm of write_byte: n more iterations of `self.write_byte(b' ')`;
\* a panic inside one ends the loop.
tab_loop(w, n) ==
  IF n = 0 \/ w.panicked THEN w
  ELSE tab_loop(write_byte(w, SPACE), n - 1)

\* write_byte that treats \r like \n.
write_byte_cr_as_nl(w, byte) ==
  CASE byte = NL -> new_line(w)
    [] byte = CR -> new_line(w)
    [] byte = TAB -> tab_loop(w, TAB_WIDTH - (w.col % TAB_WIDTH))
    [] byte = BS -> backspace(w)
    [] OTHER -> write_other(w, byte)

\* Writer::write_byte
write_byte(w, byte) ==
  CASE byte = NL -> new_line(w)
    [] byte = CR -> [w EXCEPT !.col = 0]
    [] byte = TAB -> tab_loop(w, TAB_WIDTH - (w.col % TAB_WIDTH))
    [] byte = BS -> backspace(w)
    [] OTHER -> write_other(w, byte)

RECURSIVE write_str_skips_first(_, _)
\* write_str whose loop starts at the second byte.
write_str_skips_first(w, string) ==
  IF string = <<>> \/ w.panicked THEN w
  ELSE LET rest == Tail(string)
       IN IF rest = <<>> THEN w
          ELSE write_str_skips_first(write_byte(w, Head(rest)), rest)

RECURSIVE write_str(_, _)
\* Writer::write_str and <Writer as core::fmt::Write>::write_str: write_byte
\* on each byte in order; a panic ends the loop.
write_str(w, string) ==
  IF string = <<>> \/ w.panicked THEN w
  ELSE write_str(write_byte(w, Head(string)), Tail(string))

RECURSIVE fmt_write_loop(_, _)
\* The loop of <Writer as core::fmt::Write>::write_str.
fmt_write_loop(w, string) ==
  IF string = <<>> \/ w.panicked THEN w
  ELSE fmt_write_loop(write_byte(w, Head(string)), Tail(string))

\* <Writer as core::fmt::Write>::write_str: the loop, then Ok(()). A panic
\* inside the loop unwinds past the return.
fmt_write_str(w, string) ==
  LET w1 == fmt_write_loop(w, string)
  IN [self |-> w1, result |-> IF w1.panicked THEN "unwound" ELSE "Ok"]

\* clear_screen without `self.row = 0`.
clear_screen_keeps_row(w) ==
  LET blank == Character(SPACE, w.color)
      blanks == [x \in Cols |-> blank]
  IN [w EXCEPT !.col = 0,
               !.chars = [y \in Rows |-> blanks]]

\* Writer::clear_screen: the two loops store blank in every cell of every row.
clear_screen(w) ==
  LET blank == Character(SPACE, w.color)
      blanks == [x \in Cols |-> blank]
  IN [w EXCEPT !.col = 0, !.row = 0,
               !.chars = [y \in Rows |-> blanks]]

\* fn clamp inside set_cursor
clamp(value, min, max) ==
  IF value < min THEN min ELSE IF value > max THEN max ELSE value

\* set_cursor clamping to the last valid index instead of the dimension.
set_cursor_last_index(w, x, y) ==
  [w EXCEPT !.col = IF x > BUFFER_WIDTH - 1 THEN BUFFER_WIDTH - 1 ELSE x,
            !.row = IF y > BUFFER_HEIGHT - 1 THEN BUFFER_HEIGHT - 1 ELSE y]

\* Writer::set_cursor
set_cursor(w, x, y) ==
  [w EXCEPT !.col = clamp(x, 0, BUFFER_WIDTH), !.row = clamp(y, 0, BUFFER_HEIGHT)]

\* Writer::set_color
set_color(w, c) == [w EXCEPT !.color = c]

\* ------------------------------------------------------------ Console lock
\* A lock() that takes the Mutex whether or not a guard exists.
can_acquire_always(l) == TRUE

\* Console.lock(): the compare-and-swap of spin::Mutex succeeds only when the
\* flag is clear.
can_acquire(l) == ~l

\* The flag after the guard `writer` is dropped at the end of the macro block.
unlocked(l) == FALSE

\* A print! that reaches the end of its block with bytes unwritten.
print_done_early(p) == TRUE

\* write_fmt(..).unwrap() has returned: every formatted byte has been passed
\* to write_byte.
print_done(p) == p = <<>>

\* ------------------------------------------------------------ behaviour
\* The static Console: col 0, row 0, white on black, the buffer at 0xB8000.
ConsoleInit ==
  /\ col = 0
  /\ row = 0
  /\ color = ColorNew(White, Black)
  /\ buffer \in BootBuffers
  /\ panicked = FALSE
  /\ op = <<"init">>
  /\ prevop = <<"init">>
  /\ nops = 0

\* Mutex::new: the lock is free and no call site is printing.
LockInit ==
  /\ lock = FALSE
  /\ pc = [s \in Sites |-> "idle"]
  /\ printing = [s \in Sites |-> <<>>]
  /\ pending = [s \in Sites |-> <<>>]
  /\ spun = [s \in Sites |-> FALSE]
  /\ lastWriter = 0

\* One caller that holds the Writer and applies its operations.
Init == ConsoleInit /\ LockInit /\ preempt = FALSE

\* A caller can apply one more operation.
CanCall == ~panicked /\ nops < MaxOps

\* The Writer becomes w; o is the operation that produced it.
Becomes(w, o) ==
  /\ col' = w.col
  /\ row' = w.row
  /\ color' = w.color
  /\ buffer' = w.chars
  /\ panicked' = w.panicked
  /\ op' = o
  /\ prevop' = op
  /\ nops' = nops + 1
  /\ UNCHANGED lockvars

WriteByte ==
  /\ CanCall
  /\ \E byte \in ByteInputs : Becomes(write_byte(Self, byte), <<"write_byte", byte>>)

WriteStr ==
  /\ CanCall
  /\ \E string \in StrInputs : Becomes(write_str(Self, string), <<"write_str", string>>)

FmtWriteStr ==
  /\ CanCall
  /\ \E string \in StrInputs :
       LET r == fmt_write_str(Self, string)
       IN Becomes(r.self, <<"fmt_write_str", string, r.result>>)

ClearScreen ==
  /\ CanCall
  /\ Becomes(clear_screen(Self), <<"clear_screen">>)

SetCursor ==
  /\ CanCall
  /\ \E p \in CursorInputs : Becomes(set_cursor(Self, p[1], p[2]), <<"set_cursor", p[1], p[2]>>)

SetColor ==
  /\ CanCall
  /\ \E c \in ColorInputs : Becomes(set_color(Self, c), <<"set_color", c>>)

Next == WriteByte \/ WriteStr \/ FmtWriteStr \/ ClearScreen \/ SetCursor \/ SetColor

Spec == Init /\ [][Next]_vars

\* ------------------------------------------------------------ without set_cursor
\* Byte strings that bring a fresh Writer to the edges of the grid through
\* write_byte alone: r newlines, then c printable bytes.
Edge(r, c) == [i \in 1 .. (r + c) |-> IF i <= r THEN NL ELSE 65]
EdgeInputs == {Edge(0, 0), Edge(0, 79), Edge(0, 80), Edge(24, 0), Edge(24, 79), Edge(24, 80)}

\* The Console after one of the edge strings has been written to it.
InitNoCursor ==
  /\ LockInit /\ preempt = FALSE
  /\ op = <<"init">> /\ prevop = <<"init">> /\ nops = 0
  /\ \E b \in BootBuffers, e \in EdgeInputs :
       LET w == write_str([col |-> 0, row |-> 0, color |-> ColorNew(White, Black),
                           chars |-> b, panicked |-> FALSE], e)
       IN /\ col = w.col /\ row = w.row /\ color = w.color
          /\ buffer = w.chars /\ panicked = w.panicked

\* Every public operation except set_cursor.
NextNoCursor == WriteByte \/ WriteStr \/ FmtWriteStr \/ ClearScreen \/ SetColor

SpecNoCursor == InitNoCursor /\ [][NextNoCursor]_vars

\* ------------------------------------------------------------ Color::new
\* The 16 HalfColor discriminants.
HalfColors == 0 .. 15

\* set_color(Color::new(foreground, background)) for any two HalfColors, as
\* the first operation on the Console.
SetColorNew ==
  /\ CanCall
  /\ op = <<"init">>
  /\ \E f \in HalfColors, g \in HalfColors :
       Becomes(set_color(Self, ColorNew(f, g)), <<"set_color_new", f, g>>)

SpecColor == Init /\ [][SetColorNew]_vars

\* ------------------------------------------------------------ print! / println!
\* Call site s is scheduled. With preempt, site 2 is an interrupt handler on
\* the processor of site 1: site 1 runs only while the handler is not active.
CanRun(s) == ~panicked /\ (preempt => (s = 2 \/ pc[2] = "idle"))

\* Bytes written so far plus bytes the running invocations still have to write.
Budget == nops + Len(pending[1]) + Len(pending[2])

\* Site s enters print!/println! with the formatted bytes `string` and calls
\* Console.lock().
print(s) ==
  /\ CanRun(s)
  /\ pc[s] = "idle"
  /\ \E string \in PrintInputs :
       /\ Budget + Len(string) <= MaxBytes
       /\ printing' = [printing EXCEPT ![s] = string]
       /\ pending' = [pending EXCEPT ![s] = string]
  /\ pc' = [pc EXCEPT ![s] = "spin"]
  /\ UNCHANGED <<writervars, op, prevop, nops, lock, spun, lastWriter, preempt>>

\* Console.lock() succeeds: site s now owns the guard `writer`.
Lock(s) ==
  /\ CanRun(s)
  /\ pc[s] = "spin"
  /\ can_acquire(lock)
  /\ lock' = TRUE
  /\ pc' = [pc EXCEPT ![s] = "hold"]
  /\ UNCHANGED <<writervars, op, prevop, nops, printing, pending, spun, lastWriter, preempt>>

\* One failed attempt of the spin loop inside Console.lock().
Spin(s) ==
  /\ CanRun(s)
  /\ pc[s] = "spin"
  /\ ~can_acquire(lock)
  /\ spun' = [spun EXCEPT ![s] = ~spun[s]]
  /\ UNCHANGED <<writervars, op, prevop, nops, lock, pc, printing, pending, lastWriter, preempt>>

\* writer.write_fmt: the next formatted byte goes through write_byte.
WriteFmt(s) ==
  /\ CanRun(s)
  /\ pc[s] = "hold"
  /\ ~print_done(pending[s])
  /\ LET byte == Head(pending[s])
         w == write_byte(Self, byte)
     IN /\ col' = w.col
        /\ row' = w.row
        /\ color' = w.color
        /\ buffer' = w.chars
        /\ panicked' = w.panicked
        /\ op' = <<"print", s, byte>>
  /\ prevop' = op
  /\ nops' = nops + 1
  /\ pending' = [pending EXCEPT ![s] = Tail(pending[s])]
  /\ lastWriter' = s
  /\ UNCHANGED <<lock, pc, printing, spun, preempt>>

\* End of the macro block: the guard is dropped.
Unlock(s) ==
  /\ CanRun(s)
  /\ pc[s] = "hold"
  /\ print_done(pending[s])
  /\ lock' = unlocked(lock)
  /\ pc' = [pc EXCEPT ![s] = "idle"]
  /\ UNCHANGED <<writervars, op, prevop, nops, printing, pending, spun, lastWriter, preempt>>

\* A step of site s inside print!.
Step(s) == Lock(s) \/ Spin(s) \/ WriteFmt(s) \/ Unlock(s)

NextLock == \E s \in Sites : print(s) \/ Lock(s) \/ Spin(s) \/ WriteFmt(s) \/ Unlock(s)

\* The Console when the call sites start printing: fresh, or with the cursor
\* on the last cell of the last row after earlier output.
InitConsole(e) ==
  /\ op = <<"init">> /\ prevop = <<"init">> /\ nops = 0
  /\ \E b \in BootBuffers :
       LET w == write_str([col |-> 0, row |-> 0, color |-> ColorNew(White, Black),
                           chars |-> b, panicked |-> FALSE], e)
       IN /\ col = w.col /\ row = w.row /\ color = w.color
          /\ buffer = w.chars /\ panicked = w.panicked

InitLock ==
  /\ LockInit
  /\ \E e \in {Edge(0, 0), Edge(24, 79)} : InitConsole(e)

\* Call sites on different processors, each using print!/println!.
InitSites == InitLock /\ preempt = FALSE

SpecLock == InitSites /\ [][NextLock]_vars

\* The Console fresh, or with the cursor on the last cell of the first row.
InitFair ==
  /\ LockInit
  /\ preempt = FALSE
  /\ \E e \in {Edge(0, 0), Edge(0, 79)} : InitConsole(e)

\* Call sites on different processors under fair scheduling: a call site that
\* is inside print! is scheduled again and again.
SpecLockFair == InitFair /\ [][NextLock]_vars /\ \A s \in Sites : WF_vars(Step(s))

\* Site 2 is an interrupt handler that can preempt site 1 at any point.
InitIrq == InitLock /\ preempt = TRUE

SpecIrq == InitIrq /\ [][NextLock]_vars

\* ------------------------------------------------------------ helpers of the properties
Min(a, b) == IF a < b THEN a ELSE b

\* A blank cell in attribute c, and a row of them.
Blank(c) == Character(SPACE, c)
BlankRow(c) == [x \in Cols |-> Blank(c)]

\* Grid cs2 equals grid cs1 everywhere except possibly at the cells in `except`
\* (a set of <<row, column>> pairs).
SameExcept(cs1, cs2, except) ==
  \A y \in Rows :
    \/ cs2[y] = cs1[y]
    \/ \A x \in Cols : <<y, x>> \in except \/ cs2[y][x] = cs1[y][x]

\* The byte reaches the `_` arm of write_byte.
IsPrintable(byte) == byte \notin {NL, CR, TAB, BS}

\* ------------------------------------------------------------ C1
\* C1: no Writer operation can fail: from every state reachable by public
\* operations every operation completes, and every cell access it makes uses a
\* row index < BUFFER_HEIGHT and a column index < BUFFER_WIDTH (no access is
\* out of bounds, so the Writer never panics).
C1_NoOperationFails == panicked = FALSE

\* ------------------------------------------------------------ C2
\* C2: on every return to the caller the row is in [0, height-1] and the
\* column in [0, width-1]; the column may equal width only directly after a
\* write operation whose last printable byte filled the last column.
C2_CursorBounds ==
  ~panicked =>
    /\ row \in Rows
    /\ \/ col \in Cols
       \/ /\ col = BUFFER_WIDTH
          /\ \/ op[1] = "write_byte" /\ op[2] \notin {NL, CR, BS}
             \/ op[1] = "write_str"

\* ------------------------------------------------------------ C3
\* C3: from a state with row <= height-1 and column < width, writing a
\* printable byte b stores (b, current color) at (row, column), advances the
\* column by one and leaves the row, the color and all other cells unchanged.
C3_PrintableWrite ==
  (~panicked /\ row <= BUFFER_HEIGHT - 1 /\ col < BUFFER_WIDTH) =>
    \A b \in PrintableSample :
      LET w == write_byte(Self, b)
      IN /\ ~w.panicked
         /\ w.chars[row][col] = Character(b, color)
         /\ w.col = col + 1
         /\ w.row = row
         /\ w.color = color
         /\ SameExcept(buffer, w.chars, {<<row, col>>})

\* A printable byte was written at the origin of a fresh console.
C3_Witness ==
  /\ nops = 1
  /\ op = <<"write_byte", 65>>
  /\ ~panicked
  /\ col = 1 /\ row = 0
  /\ buffer[0][0] = Character(65, color)

\* ------------------------------------------------------------ C4
\* C4: from column width-1 on row r, writing printable b1 then printable b2
\* puts b1 at (r, width-1); the second write first makes a new line: for
\* r < height-1, b2 lands at (r+1, 0) and nothing else changes; for
\* r = height-1 the grid scrolls once, b1 ends at (height-2, width-1) and b2 at
\* (height-1, 0), every other old row y >= 1 is found at y-1 and the rest of the
\* bottom row is blank. The final column is 1.
C4_WrapOnOverflow ==
  (~panicked /\ row <= BUFFER_HEIGHT - 1 /\ col = BUFFER_WIDTH - 1) =>
    \A b1 \in PrintableSample, b2 \in PrintableSample :
      LET w1 == write_byte(Self, b1)
          w2 == write_byte(w1, b2)
          last == BUFFER_WIDTH - 1
          bottom == BUFFER_HEIGHT - 1
      IN /\ ~w1.panicked /\ ~w2.panicked
         /\ w1.chars[row][last] = Character(b1, color)
         /\ w2.col = 1
         /\ w2.color = color
         /\ IF row < bottom
              THEN /\ w2.row = row + 1
                   /\ w2.chars[row][last] = Character(b1, color)
                   /\ w2.chars[row + 1][0] = Character(b2, color)
                   /\ SameExcept(buffer, w2.chars, {<<row, last>>, <<row + 1, 0>>})
              ELSE /\ w2.row = bottom
                   /\ w2.chars[bottom - 1][last] = Character(b1, color)
                   /\ w2.chars[bottom][0] = Character(b2, color)
                   /\ \A y \in 0 .. (bottom - 2) : w2.chars[y] = buffer[y + 1]
                   /\ \A x \in 0 .. (last - 1) : w2.chars[bottom - 1][x] = buffer[bottom][x]
                   /\ \A x \in 1 .. last : w2.chars[bottom][x] = Blank(color)

\* Two printable bytes were written starting at the last column of the last
\* row: the grid scrolled and the second byte opened the new bottom row.
C4_Witness ==
  /\ nops = 3
  /\ prevop = <<"write_byte", 65>>
  /\ op = <<"write_byte", 65>>
  /\ ~panicked
  /\ col = 1 /\ row = BUFFER_HEIGHT - 1
  /\ buffer[BUFFER_HEIGHT - 2][BUFFER_WIDTH - 1] = Character(65, color)
  /\ buffer[BUFFER_HEIGHT - 1][0] = Character(65, color)
  /\ buffer[BUFFER_HEIGHT - 1][1] = Blank(color)

\* ------------------------------------------------------------ C5
\* C5: after scroll() (new_line calls it in the states with row >= height-1),
\* every row i in 0..height-2 equals the old row i+1 (both character and
\* color), the bottom row is blank in the color active at scroll time, and
\* cursor and color are untouched.
C5_ScrollInvariant ==
  (~panicked /\ row >= BUFFER_HEIGHT - 1) =>
    LET w == scroll(Self)
    IN /\ \A i \in 0 .. (BUFFER_HEIGHT - 2) : w.chars[i] = buffer[i + 1]
       /\ w.chars[BUFFER_HEIGHT - 1] = BlankRow(color)
       /\ w.col = col /\ w.row = row /\ w.color = color /\ ~w.panicked

\* A newline on the last row scrolled a screen of boot text: the rows moved
\* up by one and the bottom row is blank.
C5_Witness ==
  /\ nops = 2
  /\ prevop = <<"set_cursor", 79, 24>>
  /\ op = <<"write_byte", NL>>
  /\ ~panicked
  /\ row = BUFFER_HEIGHT - 1 /\ col = 0
  /\ buffer[0][0].char_code = 48 + 3
  /\ buffer[BUFFER_HEIGHT - 2][0].char_code = 48 + 2
  /\ buffer[BUFFER_HEIGHT - 1] = BlankRow(color)

\* ------------------------------------------------------------ C6
\* C6: backspace at (0, 0) changes nothing; at (r > 0, 0) it blanks (r, 0) and
\* moves the cursor to (r-1, width-1); at (r, c) for every reachable c > 0 it
\* blanks (r, c) and moves the cursor to (r, c-1); no other cell changes.
\* Stated for the rows of the grid, r <= height-1.
C6_Backspace ==
  (~panicked /\ row \in Rows) =>
    LET w == write_byte(Self, BS)
    IN IF row = 0 /\ col = 0
         THEN w = Self
         ELSE /\ ~w.panicked
              /\ w.chars[row][col] = Blank(color)
              /\ w.color = color
              /\ SameExcept(buffer, w.chars, {<<row, col>>})
              /\ IF col = 0
                   THEN w.row = row - 1 /\ w.col = BUFFER_WIDTH - 1
                   ELSE w.row = row /\ w.col = col - 1

\* ------------------------------------------------------------ C7
\* n space bytes.
Spaces(n) == [i \in 1 .. n |-> SPACE]

\* C7: from any reachable column c a tab has exactly the effect of writing
\* 4 - (c mod 4) space bytes; for c < width the resulting column is the
\* smallest multiple of 4 above c and the cells passed over are blank in the
\* current color; the column never exceeds width; a tab at column == width
\* starts a new line first and ends at column 4.
C7_TabExpansion ==
  ~panicked =>
    LET n == TAB_WIDTH - (col % TAB_WIDTH)
        w == write_byte(Self, TAB)
    IN /\ n \in 1 .. TAB_WIDTH
       /\ w = write_str(Self, Spaces(n))
       /\ w.col <= BUFFER_WIDTH
       /\ col < BUFFER_WIDTH =>
            /\ ~w.panicked
            /\ w.col = TAB_WIDTH * ((col \div TAB_WIDTH) + 1)
            /\ w.row = row
            /\ \A x \in col .. (w.col - 1) : w.chars[row][x] = Blank(color)
       /\ col = BUFFER_WIDTH =>
            /\ ~w.panicked
            /\ w.col = TAB_WIDTH
            /\ w = write_str(new_line(Self), Spaces(TAB_WIDTH))

\* ------------------------------------------------------------ C8
\* C8: clear_screen from any reachable state sets column and row to 0, makes
\* every cell (space, current color), keeps the color, and a second
\* clear_screen changes nothing more.
C8_ClearScreen ==
  ~panicked =>
    LET w == clear_screen(Self)
        blanks == BlankRow(color)
    IN /\ w.col = 0 /\ w.row = 0
       /\ w.color = color
       /\ ~w.panicked
       /\ \A y \in Rows : w.chars[y] = blanks
       /\ clear_screen(w) = w

\* clear_screen was called twice in a row after the cursor had been moved.
C8_Witness ==
  /\ nops = 3
  /\ prevop = <<"clear_screen">>
  /\ op = <<"clear_screen">>
  /\ ~panicked
  /\ col = 0 /\ row = 0
  /\ \A y \in Rows : buffer[y] = BlankRow(color)

\* ------------------------------------------------------------ C9
\* C9: set_cursor(x, y) sets column = min(x, width) and row = min(y, height),
\* the ceiling being the dimension itself, and changes neither a cell nor the
\* color.
C9_SetCursor ==
  ~panicked =>
    \A p \in CoordSample :
      LET x == p[1]
          y == p[2]
          w == set_cursor(Self, x, y)
      IN /\ w.col = Min(x, BUFFER_WIDTH)
         /\ w.row = Min(y, BUFFER_HEIGHT)
         /\ (x > BUFFER_WIDTH => w.col = BUFFER_WIDTH)
         /\ (y > BUFFER_HEIGHT => w.row = BUFFER_HEIGHT)
         /\ w.chars = buffer
         /\ w.color = color
         /\ ~w.panicked

\* set_cursor was called with y above the height: the row is the height.
C9_Witness ==
  /\ op = <<"set_cursor", 2, 26>>
  /\ ~panicked
  /\ col = 2
  /\ row = BUFFER_HEIGHT

\* ------------------------------------------------------------ C10
\* Every cell of grid new is the cell of grid old at the same place, or the
\* cell below it (moved up by a scroll), or carries attribute c.
WrittenCellsCarry(old, new, c) ==
  \A y \in Rows :
    \/ new[y] = old[y]
    \/ y < BUFFER_HEIGHT - 1 /\ new[y] = old[y + 1]
    \/ \A x \in Cols :
         \/ new[y][x] = old[y][x]
         \/ y < BUFFER_HEIGHT - 1 /\ new[y][x] = old[y + 1][x]
         \/ new[y][x].color = c

\* C10: set_color(c) replaces the active color and changes nothing else; every
\* operation other than set_color keeps the active color, and every cell a
\* following write_byte, write_str or clear_screen writes carries c.
C10_SetColor ==
  ~panicked =>
    \A c \in ColorInputs :
      LET w0 == set_color(Self, c)
      IN /\ w0 = [Self EXCEPT !.color = c]
         /\ w0.col = col /\ w0.row = row /\ w0.chars = buffer /\ w0.color = c
         /\ \A b \in ByteInputs \cup {SPACE} :
              LET w1 == write_byte(w0, b)
              IN w1.color = c /\ WrittenCellsCarry(buffer, w1.chars, c)
         /\ \A string \in StrInputs :
              write_str(w0, string).color = c
         /\ LET w1 == clear_screen(w0)
                blanks == BlankRow(c)
            IN w1.color = c /\ \A y \in Rows : w1.chars[y] = blanks
         /\ \A p \in CoordSample : set_cursor(w0, p[1], p[2]).color = c

\* A byte was written right after set_color: its cell has the new color and
\* the cell next to it still has the boot attribute.
C10_Witness ==
  /\ nops = 2
  /\ prevop = <<"set_color", ColorNew(14, 1)>>
  /\ op = <<"write_byte", 65>>
  /\ ~panicked
  /\ color = ColorNew(14, 1)
  /\ buffer[0][0] = Character(65, ColorNew(14, 1))
  /\ buffer[0][1].color = ColorNew(7, 0)

\* ------------------------------------------------------------ C11
RECURSIVE ByteByByte(_, _, _)
\* The Writer after a caller has called write_byte on string[i], string[i+1],
\* ... in order (a call that panics is the last one).
ByteByByte(w, string, i) ==
  IF i > Len(string) \/ w.panicked THEN w
  ELSE ByteByByte(write_byte(w, string[i]), string, i + 1)

\* Byte strings the property quantifies over.
StrSample == StrInputs \cup {<<>>, <<NL, 66>>, <<65, BS, TAB>>, <<66, CR, 67>>}

\* C11: both write_str methods leave the Writer in exactly the state that
\* write_byte on each byte in order leaves it in, for every string and every
\* starting state, and the fmt::Write one never returns an error: when it
\* returns, it returns Ok.
C11_WriteStr ==
  ~panicked =>
    \A string \in StrSample :
      LET each == ByteByByte(Self, string, 1)
          r == fmt_write_str(Self, string)
      IN /\ write_str(Self, string) = each
         /\ r.self = each
         /\ r.result # "Err"
         /\ ~each.panicked => r.result = "Ok"

\* "AB\tC\n" went through fmt::Write::write_str on a fresh console and
\* returned Ok.
C11_Witness ==
  /\ nops = 1
  /\ op = <<"fmt_write_str", <<65, 66, TAB, 67, NL>>, "Ok">>
  /\ ~panicked
  /\ row = 1 /\ col = 0
  /\ buffer[0][0] = Character(65, color)
  /\ buffer[0][1] = Character(66, color)
  /\ buffer[0][2] = Blank(color) /\ buffer[0][3] = Blank(color)
  /\ buffer[0][4] = Character(67, color)

\* ------------------------------------------------------------ C13
\* C13: Color::new(f, g) is the byte 16*g + f (high nibble g, low nibble f),
\* distinct pairs give distinct bytes, and the Console starts with
\* new(White, Black) = 0x0F.
C13_ColorEncoding ==
  /\ op = <<"init">> => color = 15
  /\ op[1] = "set_color_new" =>
       LET f == op[2]
           g == op[3]
       IN /\ color = 16 * g + f
          /\ color \in 0 .. 255
          /\ color \div 16 = g
          /\ color % 16 = f
          /\ \A f2 \in HalfColors, g2 \in HalfColors :
               ColorNew(f2, g2) = color => (f2 = f /\ g2 = g)

\* Color::new(Yellow, Blue) was made the active color: 0x1E.
C13_Witness ==
  /\ op = <<"set_color_new", 14, 1>>
  /\ color = 30

\* ------------------------------------------------------------ C14
\* C14: write_byte(\n) always sets the column to 0; on a row above the last
\* one it increments the row and changes no cell; on the last row it scrolls
\* exactly once and the row stays height-1.
C14_NewLine ==
  ~panicked =>
    LET w == write_byte(Self, NL)
    IN /\ w.col = 0
       /\ w.color = color
       /\ ~w.panicked
       /\ row < BUFFER_HEIGHT - 1 => (w.row = row + 1 /\ w.chars = buffer)
       /\ row = BUFFER_HEIGHT - 1 =>
            /\ w.row = BUFFER_HEIGHT - 1
            /\ \A i \in 0 .. (BUFFER_HEIGHT - 2) : w.chars[i] = buffer[i + 1]
            /\ w.chars[BUFFER_HEIGHT - 1] = BlankRow(color)

\* A newline was written at the end of row 1: the cursor is at the start of
\* row 2 and the grid is as the boot environment left it.
C14_Witness ==
  /\ nops = 2
  /\ prevop = <<"set_cursor", 79, 1>>
  /\ op = <<"write_byte", NL>>
  /\ ~panicked
  /\ row = 2 /\ col = 0
  /\ buffer \in BootBuffers

\* ------------------------------------------------------------ C15
\* C15: write_byte(\r) from any state sets the column to 0 and leaves the row,
\* the color and every cell unchanged.
C15_CarriageReturn ==
  ~panicked =>
    LET w == write_byte(Self, CR)
    IN /\ w.col = 0
       /\ w.row = row
       /\ w.color = color
       /\ w.chars = buffer
       /\ ~w.panicked

\* A carriage return was written at the end of the last row.
C15_Witness ==
  /\ nops = 2
  /\ prevop = <<"set_cursor", 79, 24>>
  /\ op = <<"write_byte", CR>>
  /\ ~panicked
  /\ row = BUFFER_HEIGHT - 1 /\ col = 0
  /\ buffer \in BootBuffers

\* ------------------------------------------------------------ C19
\* C19: without set_cursor, after any sequence of write_byte, write_str,
\* clear_screen and set_color that completes, row <= height-1 and
\* column <= width: no row of height or more is reached.
C19_BoundsWithoutSetCursor ==
  ~panicked => (row <= BUFFER_HEIGHT - 1 /\ col <= BUFFER_WIDTH)

\* A printable byte filled the last cell of the last row: the cursor is at
\* (height-1, width), the largest position the property allows.
C19_Witness ==
  /\ nops = 1
  /\ op = <<"write_byte", 65>>
  /\ ~panicked
  /\ row = BUFFER_HEIGHT - 1 /\ col = BUFFER_WIDTH
  /\ buffer[BUFFER_HEIGHT - 1][BUFFER_WIDTH - 1] = Character(65, color)

\* ------------------------------------------------------------ C20
\* C20: from column c < width-1 on row r, writing a printable byte b and then
\* backspace returns the cursor to (r, c) and leaves cell (r, c), where b was
\* written, blank in the current color.
C20_BackspaceErasesLast ==
  (~panicked /\ row <= BUFFER_HEIGHT - 1 /\ col < BUFFER_WIDTH - 1) =>
    \A b \in PrintableSample :
      LET w == write_byte(write_byte(Self, b), BS)
      IN /\ ~w.panicked
         /\ w.row = row /\ w.col = col
         /\ w.chars[row][col] = Blank(color)

\* ------------------------------------------------------------ C12
\* The call sites that own a guard.
Holders == {s \in Sites : pc[s] = "hold"}

\* C12: at most one call site at a time holds the Console lock, and every
\* step that changes the Writer state or the grid is taken by the call site
\* that holds the lock.
C12_MutualExclusion ==
  /\ [](\A s \in Sites, t \in Sites : (pc[s] = "hold" /\ pc[t] = "hold") => s = t)
  /\ [](Holders # {} => lock)
  /\ [][writervars' # writervars =>
          (lock /\ Holders = {lastWriter'} /\ Holders' = Holders)]_vars

\* Site 1 has written its first byte under the lock while site 2 spins on it.
C12_Witness ==
  /\ pc[1] = "hold" /\ pc[2] = "spin" /\ spun[2]
  /\ lock
  /\ op = <<"print", 1, 65>>
  /\ lastWriter = 1
  /\ pending[1] = <<66>>

\* ------------------------------------------------------------ C16
\* The interrupted site holds the lock and the handler waits for it.
Stuck == preempt /\ pc[1] = "hold" /\ pc[2] = "spin"

\* C16: once a call site holding the lock is interrupted by a handler that
\* tries to take the same lock, and cannot run until the handler returns, the
\* system stays in that state for ever: the handler keeps spinning, the lock
\* is never released and no further byte is written.
C16_ReentrancyDeadlock ==
  [][Stuck => (Stuck' /\ lock' /\ UNCHANGED <<writervars, nops, pending, pc>>)]_vars

\* The handler has spun on the lock that the interrupted print! holds with a
\* byte still to write.
C16_Witness ==
  /\ Stuck
  /\ lock
  /\ spun[2]
  /\ printing[1] = <<65, 66>>
  /\ pending[1] = <<66>>
  /\ op = <<"print", 1, 65>>

\* ------------------------------------------------------------ C17
\* C17: with call sites that only use print!/println! (acquire, finitely many
\* write_byte, release, never re-entrant), every acquisition is eventually
\* followed by a release, no reachable state has a call site inside print!
\* with the system unable to take a step, and under fair scheduling a call
\* site waiting for the lock eventually acquires it.
C17_LockProgress ==
  /\ \A s \in Sites : (pc[s] = "hold") ~> (pc[s] = "idle")
  /\ [](\A s \in Sites : pc[s] # "idle" => \E t \in Sites : ENABLED Step(t))
  /\ \A s \in Sites : (pc[s] = "spin") ~> (pc[s] = "hold")

\* ------------------------------------------------------------ C18
\* C18: a print!/println! invocation releases the lock only after all of its
\* bytes have been written, and from its first byte on no other call site's
\* byte is written until it has released: while it holds the lock with some
\* byte written, the last byte written is its own.
C18_PrintAtomic ==
  \A s \in Sites :
    /\ pc[s] = "idle" => pending[s] = <<>>
    /\ pc[s] = "spin" => pending[s] = printing[s]
    /\ (pc[s] = "hold" /\ Len(pending[s]) < Len(printing[s])) => lastWriter = s
    /\ pc[s] = "hold" => lock

\* Site 1 wrote "AB" from the last cell of the last row, wrapping and
\* scrolling between the two bytes, while site 2 was spinning on the lock
\* with two bytes to print.
C18_Witness ==
  /\ pc[1] = "hold" /\ printing[1] = <<65, 66>> /\ pending[1] = <<>>
  /\ pc[2] = "spin" /\ spun[2] /\ pending[2] = <<67, NL>>
  /\ prevop = <<"print", 1, 65>>
  /\ op = <<"print", 1, 66>>
  /\ row = BUFFER_HEIGHT - 1 /\ col = 1
  /\ buffer[BUFFER_HEIGHT - 2][BUFFER_WIDTH - 1] = Character(65, color)
  /\ buffer[BUFFER_HEIGHT - 1][0] = Character(66, color)
  /\ buffer[BUFFER_HEIGHT - 1][1] = Blank(color)

====
